---------------------------- MODULE Spec2Model ----------------------------
(***************************************************************************)
(* Model of drivers/phy/ti/phy-ti-ds250dfx10.c: the TI DS250DFx10 retimer  *)
(* PHY driver.  The device is a byte-addressed register file behind an     *)
(* SMBus transport; every SMBus transfer is one atomic step and may fail.  *)
(* probe runs once, then consumer threads look lanes up (of_xlate) and     *)
(* call set_mode, which runs the configure sequence one bus transfer at a  *)
(* time.                                                                   *)
(***************************************************************************)
EXTENDS Integers, Sequences, FiniteSets, TLC

\* ------------------------------------------------------------------ bounds
MaxFaults == 1        \* bus transfers that may fail in one behaviour
MaxCalls == 1         \* set_mode calls one consumer thread makes
MaxThreads == 2       \* consumer threads that exist
MaxUnitCalls == 1     \* direct write_register calls in the register harness

\* --------------------------------------------------------- program constants
EIO == 5
ENOMEM == 12
ENODEV == 19
EINVAL == 22
EOPNOTSUPP == 95

DS250DF410_REG_CHAN_CONFIG_ID == 239      \* 0xEF
DS250DF410_MASK_CHAN_CONFIG_ID == 15      \* GENMASK(3, 0)
DS250DF410_REG_VERSION == 240             \* 0xF0
DS250DF410_REG_DEVICE_ID == 241           \* 0xF1
DS250DF410_REG_CHAN_VERSION == 243        \* 0xF3
DS250DF410_MASK_CHAN_VERSION == 240       \* GENMASK(7, 4)
DS250DF410_MASK_SHARE_VERSION == 15       \* GENMASK(3, 0)

PhySlots == 8                             \* struct phy *phy[8]

NULL == 0
None == "none"
NoProvider == "NULL"                      \* priv->provider after kzalloc

Threads == 1..MaxThreads
Byte == 0..255

\* ------------------------------------------------------------ byte arithmetic
RECURSIVE BitAnd(_, _)
BitAnd(a, b) ==
    IF a = 0 \/ b = 0 THEN 0
    ELSE (a % 2) * (b % 2) + 2 * BitAnd(a \div 2, b \div 2)

RECURSIVE BitOr(_, _)
BitOr(a, b) ==
    IF a = 0 THEN b
    ELSE IF b = 0 THEN a
    ELSE (IF (a % 2) + (b % 2) > 0 THEN 1 ELSE 0) + 2 * BitOr(a \div 2, b \div 2)

\* ~m narrowed to uint8_t when passed as the mask argument
BitNot8(m) == 255 - m

RECURSIVE Pow2(_)
Pow2(n) == IF n = 0 THEN 1 ELSE 2 * Pow2(n - 1)

\* the channel index written in place of its one-hot byte
OneHotIndex(channel) == channel

\* (uint8_t)(1 << channel)
OneHot(channel) == Pow2(channel) % 256

\* ret |= r on int: every r the driver accumulates is 0 or -EIO
OrRet(a, b) == IF a = 0 THEN b ELSE IF b = 0 THEN a ELSE IF a = b THEN a ELSE -1

\* ---------------------------------------------------------------- the device
ConfigAddrs == {255, 252, 0, 10, 47, 61, 62, 63}
IdAddrs == {DS250DF410_REG_CHAN_CONFIG_ID, DS250DF410_REG_VERSION,
            DS250DF410_REG_DEVICE_ID, DS250DF410_REG_CHAN_VERSION}
Addrs == ConfigAddrs \cup IdAddrs

\* register images the device may power up with: the device id and the
\* content of the configuration registers (id 0x10 over 0x5A, 0x42 over 0xA5),
\* and the channel-config byte
IdAndFill == {<<16, 90>>, <<66, 165>>}
ChanCfgBytes == {60, 14, 224, 15}         \* 0x3C, 0x0E, 0xE0, 0x0F

DeviceImage(id, cfg, fill) ==
    [a \in Addrs |->
        IF a = DS250DF410_REG_DEVICE_ID THEN id
        ELSE IF a = DS250DF410_REG_VERSION THEN 2
        ELSE IF a = DS250DF410_REG_CHAN_CONFIG_ID THEN cfg
        ELSE IF a = DS250DF410_REG_CHAN_VERSION THEN 33
        ELSE fill]

VARIABLES
    regs,       \* the retimer's register file
    faults,     \* bus transfers that have failed so far
    ppc,        \* where probe / remove stands
    pl,         \* probe's locals
    phy,        \* priv->phy[0..7]: a handle or NULL
    provider,   \* priv->provider: "NULL", "registered" or "ERR_PTR"
    alive,      \* phy objects created and not destroyed
    drvdata,    \* phy_get_drvdata: handle -> struct ds250dfx10_phy_priv
    nphys,      \* phy objects created so far (handles are 1..nphys)
    active,     \* consumer threads of this behaviour
    pc,         \* per thread: "idle", "cfg", "ret", "unit", "unitret"
    held,       \* per thread: the lane handle it holds, or NULL
    xl,         \* per thread: its last of_xlate call and result
    call,       \* per thread: arguments of its current / last set_mode
    step,       \* per thread: position in the configure sequence
    ret,        \* per thread: configure's accumulated ret
    wr,         \* per thread: frame of the running write_register
    result,     \* per thread: what its last set_mode returned
    log,        \* per thread: bus transfers of its current / last call
    ncalls,     \* per thread: calls made
    snap        \* per thread: register file when its call began

devvars == <<regs, faults>>
probevars == <<ppc, pl, phy, provider, alive, drvdata, nphys>>
thrvars == <<pc, held, xl, call, step, ret, wr, result, log, ncalls, snap>>
vars == <<regs, faults, ppc, pl, phy, provider, alive, drvdata, nphys, active,
          pc, held, xl, call, step, ret, wr, result, log, ncalls, snap>>

\* --------------------------------------------------------------- the SMBus
\* i2c_smbus_read_byte_data / i2c_smbus_write_byte_data may fail
MayFail == faults < MaxFaults

\* the read without the mask applied to the byte
ReadRegisterValueUnmasked(res, mask) == res

\* ds250dfx10_read_register on a successful transfer: *value = res & mask
ReadRegisterValue(res, mask) == BitAnd(res, mask)

\* the combination without the mask applied to the new value
CombineValueUnmasked(value, mask, tmp) == BitOr(value, tmp)

\* ds250dfx10_write_register line 60: value = (value & mask) | tmp
CombineValue(value, mask, tmp) == BitOr(BitAnd(value, mask), tmp)

\* frame of a write_register call: its parameters (value is reassigned at
\* line 60, arg keeps what the caller passed), tmp, where it stands (wpc)
\* and, once it has returned, what it returned (rv)
NoFrame ==
    [address |-> 0, value |-> 0, mask |-> 0, arg |-> 0, tmp |-> 0,
     wpc |-> "none", rv |-> 0]

\* write_register reading before every write, full-byte ones included
WriteRegisterFrameAlwaysRead(address, value, mask) ==
    [address |-> address, value |-> value, mask |-> mask, arg |-> value,
     tmp |-> 0, wpc |-> "read", rv |-> 0]

\* entry of ds250dfx10_write_register: a masked write starts with the read
WriteRegisterFrame(address, value, mask) ==
    [address |-> address, value |-> value, mask |-> mask, arg |-> value,
     tmp |-> 0, wpc |-> IF mask # 255 THEN "read" ELSE "write", rv |-> 0]

\* one bus transfer as the transport sees it, tagged with the call it serves
\* and with what paging (0xFF), channel select (0xFC) and CDR control (0x0A)
\* hold when it is applied
LogEntry(t, op, data, ok) ==
    [op |-> op, address |-> wr[t].address, data |-> data, ok |-> ok,
     step |-> step[t], value |-> wr[t].arg, mask |-> wr[t].mask,
     page |-> regs[255], sel |-> regs[252], cdr |-> regs[10]]

\* ------------------------------------------------------ configure sequences
\* sequences with two neighbouring statements exchanged
Swapped(S, i) == [S EXCEPT ![i] = S[i + 1], ![i + 1] = S[i]]

Config10gBase(channel) ==
    << <<255, 1, 3>>, <<252, OneHot(channel), 255>>, <<0, 4, 4>>, <<10, 12, 12>>,
       <<47, 0, 240>>, <<61, 128, 128>>, <<61, 0, 64>>, <<61, 15, 31>>,
       <<62, 64, 64>>, <<62, 4, 15>>, <<63, 64, 64>>, <<63, 4, 15>>,
       <<10, 0, 12>> >>

\* the line rate selected before the CDR hold is asserted
ds250dfx10_config_10g_late_hold(channel) == Swapped(Config10gBase(channel), 4)

\* the channel registers reset before the channel is selected
ds250dfx10_config_10g_late_select(channel) == Swapped(Config10gBase(channel), 2)

\* the CDR hold released before the post cursor magnitude is set
ds250dfx10_config_10g_early_release(channel) == Swapped(Config10gBase(channel), 12)

ds250dfx10_config_10g(channel) ==
    << <<255, 1, 3>>,                    \* enable smbus access to single channel
       <<252, OneHot(channel), 255>>,    \* select channel
       <<0, 4, 4>>,                      \* reset channel registers
       <<10, 12, 12>>,                   \* assert cdr
       <<47, 0, 240>>,                   \* select 10.3125 rate
       <<61, 128, 128>>,                 \* enable pre- and post-fir
       <<61, 0, 64>>,                    \* main cursor sign
       <<61, 15, 31>>,                   \* main cursor magnitude +15
       <<62, 64, 64>>,                   \* pre cursor sign
       <<62, 4, 15>>,                    \* pre cursor magnitude -4
       <<63, 64, 64>>,                   \* post cursor sign
       <<63, 4, 15>>,                    \* post cursor magnitude -4
       <<10, 0, 12>> >>                  \* deassert cdr

\* a 25G sequence with a main cursor of its own
ds250dfx10_config_25g_cursor(channel) ==
    [ds250dfx10_config_10g(channel) EXCEPT ![5] = <<47, 80, 240>>,
                                           ![8] = <<61, 12, 31>>]

ds250dfx10_config_25g(channel) ==
    << <<255, 1, 3>>,
       <<252, OneHot(channel), 255>>,
       <<0, 4, 4>>,
       <<10, 12, 12>>,
       <<47, 80, 240>>,                  \* select 25.78125 rate
       <<61, 128, 128>>,
       <<61, 0, 64>>,
       <<61, 15, 31>>,
       <<62, 64, 64>>,
       <<62, 4, 15>>,
       <<63, 64, 64>>,
       <<63, 4, 15>>,
       <<10, 0, 12>> >>

PHY_MODE_ETHERNET == "PHY_MODE_ETHERNET"
PHY_INTERFACE_MODE_10GBASER == "10GBASER"
PHY_INTERFACE_MODE_25GBASER == "25GBASER"
Modes == {PHY_MODE_ETHERNET, "PHY_MODE_PCIE"}
Submodes == {PHY_INTERFACE_MODE_10GBASER, PHY_INTERFACE_MODE_25GBASER, "SGMII"}

\* the dispatch without the check of the operating mode
SetModeDispatchAnyMode(mode, submode) ==
    IF submode = PHY_INTERFACE_MODE_10GBASER THEN "config_10g"
    ELSE IF submode = PHY_INTERFACE_MODE_25GBASER THEN "config_25g"
    ELSE "EOPNOTSUPP"

\* ds250dfx10_phy_set_mode lines 160-174: what a request is dispatched to
SetModeDispatch(mode, submode) ==
    IF mode # PHY_MODE_ETHERNET THEN "EOPNOTSUPP"
    ELSE IF submode = PHY_INTERFACE_MODE_10GBASER THEN "config_10g"
    ELSE IF submode = PHY_INTERFACE_MODE_25GBASER THEN "config_25g"
    ELSE "EOPNOTSUPP"

\* the sequence of write_register calls a supported request runs
ConfigSeq(submode, channel) ==
    IF submode = PHY_INTERFACE_MODE_10GBASER
    THEN ds250dfx10_config_10g(channel)
    ELSE ds250dfx10_config_25g(channel)

NoCall == [phy |-> NULL, mode |-> None, submode |-> None, channel |-> 0]

\* channel argument of the running configure call of thread t
CallSeq(t) == ConfigSeq(call[t].submode, call[t].channel)

FrameOf(triple) == WriteRegisterFrame(triple[1], triple[2], triple[3])

\* configure giving up at the first failed write_register
WriteRegisterReturnAbort(t, r) ==
    IF pc[t] = "cfg"
    THEN /\ ret' = [ret EXCEPT ![t] = OrRet(@, r)]
         /\ step' = [step EXCEPT ![t] = IF r # 0 THEN Len(CallSeq(t)) + 1 ELSE @ + 1]
         /\ wr' = [wr EXCEPT ![t] =
                     IF r = 0 /\ step[t] + 1 <= Len(CallSeq(t))
                     THEN FrameOf(CallSeq(t)[step[t] + 1])
                     ELSE [@ EXCEPT !.wpc = "none", !.rv = r]]
         /\ UNCHANGED <<pc, result>>
    ELSE /\ wr' = [wr EXCEPT ![t] = [@ EXCEPT !.wpc = "none", !.rv = r]]
         /\ pc' = [pc EXCEPT ![t] = "unitret"]
         /\ UNCHANGED <<ret, step, result>>

\* ds250dfx10_write_register returns r to its caller: configure accumulates
\* it and goes on to its next statement; the harness keeps it
WriteRegisterReturn(t, r) ==
    IF pc[t] = "cfg"
    THEN /\ ret' = [ret EXCEPT ![t] = OrRet(@, r)]
         /\ step' = [step EXCEPT ![t] = @ + 1]
         /\ wr' = [wr EXCEPT ![t] =
                     IF step[t] + 1 <= Len(CallSeq(t))
                     THEN FrameOf(CallSeq(t)[step[t] + 1])
                     ELSE [@ EXCEPT !.wpc = "none", !.rv = r]]
         /\ UNCHANGED <<pc, result>>
    ELSE /\ wr' = [wr EXCEPT ![t] = [@ EXCEPT !.wpc = "none", !.rv = r]]
         /\ pc' = [pc EXCEPT ![t] = "unitret"]
         /\ UNCHANGED <<ret, step, result>>

\* the preserving read with its result unchecked: a failed read goes on to
\* the write with nothing preserved
WriteRegisterReadUnchecked(t) ==
    /\ t \in active
    /\ wr[t].wpc = "read"
    /\ \/ /\ MayFail
          /\ faults' = faults + 1
          /\ log' = [log EXCEPT ![t] = Append(@, LogEntry(t, "R", 0, FALSE))]
          /\ wr' = [wr EXCEPT ![t] =
                [@ EXCEPT !.value = CombineValue(wr[t].value, wr[t].mask, 0),
                          !.wpc = "write"]]
          /\ UNCHANGED <<pc, ret, step, result>>
       \/ /\ LET raw == regs[wr[t].address]
                  tmp == ReadRegisterValue(raw, BitNot8(wr[t].mask))
              IN /\ log' = [log EXCEPT ![t] = Append(@, LogEntry(t, "R", raw, TRUE))]
                 /\ wr' = [wr EXCEPT ![t] =
                       [@ EXCEPT !.tmp = tmp,
                                 !.value = CombineValue(wr[t].value, wr[t].mask, tmp),
                                 !.wpc = "write"]]
          /\ UNCHANGED <<faults, pc, ret, step, result>>
    /\ UNCHANGED <<regs, active, held, xl, call, ncalls, snap>>
    /\ UNCHANGED probevars

\* ds250dfx10_write_register lines 55-61: the preserving read
WriteRegisterRead(t) ==
    /\ t \in active
    /\ wr[t].wpc = "read"
    /\ \/ /\ MayFail                     \* res < 0: return -EIO
          /\ faults' = faults + 1
          /\ log' = [log EXCEPT ![t] = Append(@, LogEntry(t, "R", 0, FALSE))]
          /\ WriteRegisterReturn(t, -EIO)
       \/ /\ LET raw == regs[wr[t].address]
                  tmp == ReadRegisterValue(raw, BitNot8(wr[t].mask))
              IN /\ log' = [log EXCEPT ![t] = Append(@, LogEntry(t, "R", raw, TRUE))]
                 /\ wr' = [wr EXCEPT ![t] =
                       [@ EXCEPT !.tmp = tmp,
                                 !.value = CombineValue(wr[t].value, wr[t].mask, tmp),
                                 !.wpc = "write"]]
          /\ UNCHANGED <<faults, pc, ret, step, result>>
    /\ UNCHANGED <<regs, active, held, xl, call, ncalls, snap>>
    /\ UNCHANGED probevars

\* ds250dfx10_write_register lines 63-71: the bus write
WriteRegisterWrite(t) ==
    /\ t \in active
    /\ wr[t].wpc = "write"
    /\ \/ /\ MayFail                     \* res < 0: return -EIO
          /\ faults' = faults + 1
          /\ log' = [log EXCEPT ![t] = Append(@, LogEntry(t, "W", wr[t].value, FALSE))]
          /\ WriteRegisterReturn(t, -EIO)
          /\ UNCHANGED regs
       \/ /\ regs' = [regs EXCEPT ![wr[t].address] = wr[t].value]
          /\ log' = [log EXCEPT ![t] = Append(@, LogEntry(t, "W", wr[t].value, TRUE))]
          /\ WriteRegisterReturn(t, 0)
          /\ UNCHANGED faults
    /\ UNCHANGED <<active, held, xl, call, ncalls, snap>>
    /\ UNCHANGED probevars

\* ------------------------------------------------------------------- probe
NoLocals ==
    [device_id |-> -1, version |-> -1, chan_config_id |-> -1, channels |-> -1,
     chan_version |-> -1, share_version |-> -1, i |-> -1, ret |-> 0,
     warned |-> FALSE, returned |-> FALSE, rv |-> 0]

NoData == [client |-> None, channel |-> -1]

\* probe lines 286-289: phy_priv->client = client; phy_priv->channel = i
PhyPrivOf(i) == [client |-> "client", channel |-> i % 256]

Slots == 0..(PhySlots - 1)
Handles == 1..PhySlots

\* no_phys: return ret
ProbeFail(r) ==
    /\ ppc' = "failed"
    /\ pl' = [pl EXCEPT !.ret = r, !.returned = TRUE, !.rv = r]

\* probe lines 211-216: priv = devm_kzalloc(...)
ProbeAlloc ==
    /\ ppc = "alloc"
    /\ \/ ProbeFail(-ENOMEM) /\ UNCHANGED <<phy, provider>>
       \/ /\ phy' = [i \in Slots |-> NULL]
          /\ provider' = NoProvider
          /\ ppc' = "rd_device_id"
          /\ UNCHANGED pl
    /\ UNCHANGED <<devvars, alive, drvdata, nphys, active>>
    /\ UNCHANGED thrvars

\* probe lines 218-222: read device identification
ProbeReadDeviceId ==
    /\ ppc = "rd_device_id"
    /\ \/ MayFail /\ faults' = faults + 1 /\ ProbeFail(-EIO)
       \/ /\ pl' = [pl EXCEPT !.device_id =
                       ReadRegisterValue(regs[DS250DF410_REG_DEVICE_ID], 255)]
          /\ ppc' = "rd_version"
          /\ UNCHANGED faults
    /\ UNCHANGED <<regs, phy, provider, alive, drvdata, nphys, active>>
    /\ UNCHANGED thrvars

\* probe lines 224-238: read device version, warn on an unknown device id
ProbeReadVersion ==
    /\ ppc = "rd_version"
    /\ \/ MayFail /\ faults' = faults + 1 /\ ProbeFail(-EIO)
       \/ /\ pl' = [pl EXCEPT !.version =
                       ReadRegisterValue(regs[DS250DF410_REG_VERSION], 255),
                              !.warned = (pl.device_id # 16)]
          /\ ppc' = "rd_chan_config"
          /\ UNCHANGED faults
    /\ UNCHANGED <<regs, phy, provider, alive, drvdata, nphys, active>>
    /\ UNCHANGED thrvars

\* the switch with its two cases exchanged
ChannelsOfSwapped(chan_config_id) ==
    IF chan_config_id = 12 THEN 4
    ELSE IF chan_config_id = 14 THEN 8
    ELSE 0

\* probe lines 247-258: switch (chan_config_id); 0 stands for the default case
ChannelsOf(chan_config_id) ==
    IF chan_config_id = 12 THEN 8
    ELSE IF chan_config_id = 14 THEN 4
    ELSE 0

\* probe lines 240-259: read channel config id and map it to a lane count
ProbeReadChanConfig ==
    /\ ppc = "rd_chan_config"
    /\ \/ MayFail /\ faults' = faults + 1 /\ ProbeFail(-EIO)
       \/ /\ LET id == ReadRegisterValue(regs[DS250DF410_REG_CHAN_CONFIG_ID],
                                         DS250DF410_MASK_CHAN_CONFIG_ID)
             IN IF ChannelsOf(id) = 0
                THEN /\ ppc' = "failed"
                     /\ pl' = [pl EXCEPT !.chan_config_id = id,
                                         !.ret = -EINVAL, !.returned = TRUE,
                                         !.rv = -EINVAL]
                ELSE /\ ppc' = "rd_chan_version"
                     /\ pl' = [pl EXCEPT !.chan_config_id = id,
                                         !.channels = ChannelsOf(id)]
          /\ UNCHANGED faults
    /\ UNCHANGED <<regs, phy, provider, alive, drvdata, nphys, active>>
    /\ UNCHANGED thrvars

\* probe lines 261-269: read channel version, split it for logging
ProbeReadChanVersion ==
    /\ ppc = "rd_chan_version"
    /\ \/ MayFail /\ faults' = faults + 1 /\ ProbeFail(-EIO)
       \/ /\ LET reg == ReadRegisterValue(regs[DS250DF410_REG_CHAN_VERSION], 255)
             IN pl' = [pl EXCEPT
                    !.chan_version = BitAnd(reg, DS250DF410_MASK_CHAN_VERSION) \div 16,
                    !.share_version = BitAnd(reg, DS250DF410_MASK_SHARE_VERSION),
                    !.i = 0]
          /\ ppc' = "create"
          /\ UNCHANGED faults
    /\ UNCHANGED <<regs, phy, provider, alive, drvdata, nphys, active>>
    /\ UNCHANGED thrvars

\* of_node_put(child): child is never initialised, so the put either does
\* nothing or faults; next is where probe goes on when it does nothing
OfNodePutThen(next) == {next, "oops"}

\* probe lines 272-292: one iteration of the lane creation loop
ProbeCreatePhy ==
    /\ ppc = "create"
    /\ pl.i < pl.channels
    /\ \/ /\ phy' = [phy EXCEPT ![pl.i] = NULL]     \* devm_phy_create failed
          /\ pl' = [pl EXCEPT !.ret = -ENOMEM]
          /\ ppc' \in OfNodePutThen("no_provider")
          /\ UNCHANGED <<alive, drvdata, nphys>>
       \/ /\ phy' = [phy EXCEPT ![pl.i] = nphys + 1]
          /\ alive' = alive \cup {nphys + 1}
          /\ nphys' = nphys + 1
          /\ \/ /\ pl' = [pl EXCEPT !.ret = -ENOMEM]  \* devm_kzalloc failed
                /\ ppc' = "no_provider"
                /\ UNCHANGED drvdata
             \/ /\ drvdata' = [drvdata EXCEPT ![nphys + 1] = PhyPrivOf(pl.i)]
                /\ pl' = [pl EXCEPT !.i = @ + 1]
                /\ UNCHANGED ppc
    /\ UNCHANGED <<devvars, provider, active>>
    /\ UNCHANGED thrvars

\* probe lines 293-298: register the provider (unchecked) and return 0
ProbeRegisterProvider ==
    /\ ppc = "create"
    /\ ~(pl.i < pl.channels)
    /\ \E next \in OfNodePutThen("probed") :
          /\ ppc' = next
          /\ IF next = "oops"
             THEN UNCHANGED <<provider, pl>>
             ELSE /\ provider' \in {"registered", "ERR_PTR"}
                  /\ pl' = [pl EXCEPT !.returned = TRUE, !.rv = 0]
    /\ UNCHANGED <<devvars, phy, alive, drvdata, nphys, active>>
    /\ UNCHANGED thrvars

\* a destroy loop that stops below the lane being created
SlotPhysBelowI == {phy[i] : i \in {j \in Slots : j < pl.i}} \ {NULL}

\* the phy objects a destroy loop over phy[0..7] destroys
SlotPhys == {phy[i] : i \in Slots} \ {NULL}

\* probe lines 301-307: no_provider: destroy every phy, return ret
ProbeNoProvider ==
    /\ ppc = "no_provider"
    /\ alive' = alive \ SlotPhys
    /\ ppc' = "failed"
    /\ pl' = [pl EXCEPT !.returned = TRUE, !.rv = pl.ret]
    /\ UNCHANGED <<devvars, phy, provider, drvdata, nphys, active>>
    /\ UNCHANGED thrvars

\* a device-wide lock: no thread is inside a driver call
QuietDevice(t) == \A u \in Threads : pc[u] \in {"idle", "ret"}

\* thread t is not inside a driver call
Quiet(t) == pc[t] \in {"idle", "ret"}

\* ds250dfx10_remove: destroy every phy; the slots keep their pointers.  It
\* shares no variable with a running configure, so it is taken between calls.
Remove ==
    /\ ppc = "probed"
    /\ \A t \in Threads : Quiet(t)
    /\ alive' = alive \ SlotPhys
    /\ ppc' = "removed"
    /\ UNCHANGED <<devvars, pl, phy, provider, drvdata, nphys, active>>
    /\ UNCHANGED thrvars

\* ---------------------------------------------------- probe as a function
\* What the environment does to one run of probe: whether priv is allocated,
\* how many of the four identification reads succeed, the lane whose creation
\* fails (PhySlots when none does) and whether it is devm_phy_create or the
\* devm_kzalloc that fails, whether of_node_put(child) faults, and whether
\* the provider registration succeeds.
ProbeOut(returned, rv, lanes, prov, warned) ==
    [returned |-> returned, rv |-> rv, lanes |-> lanes, provider |-> prov,
     warned |-> warned]

\* probe that refuses a device whose id it does not know
ProbeRunStrictId(image, e) ==
    LET device_id == ReadRegisterValue(image[DS250DF410_REG_DEVICE_ID], 255)
        chan_config_id == ReadRegisterValue(image[DS250DF410_REG_CHAN_CONFIG_ID],
                                            DS250DF410_MASK_CHAN_CONFIG_ID)
        channels == ChannelsOf(chan_config_id)
        warned == device_id # 16
        all == {i \in Slots : i < channels}
    IN IF ~e.alloc THEN ProbeOut(TRUE, -ENOMEM, {}, NoProvider, FALSE)
       ELSE IF e.reads < 2 THEN ProbeOut(TRUE, -EIO, {}, NoProvider, FALSE)
       ELSE IF warned THEN ProbeOut(TRUE, -ENODEV, {}, NoProvider, TRUE)
       ELSE IF e.reads < 3 THEN ProbeOut(TRUE, -EIO, {}, NoProvider, warned)
       ELSE IF channels = 0 THEN ProbeOut(TRUE, -EINVAL, {}, NoProvider, warned)
       ELSE IF e.reads < 4 THEN ProbeOut(TRUE, -EIO, {}, NoProvider, warned)
       ELSE IF e.create < channels
       THEN IF e.kind = "create" /\ e.oops
            THEN ProbeOut(FALSE, 0, {i \in Slots : i < e.create}, NoProvider, warned)
            ELSE ProbeOut(TRUE, -ENOMEM, {}, NoProvider, warned)
       ELSE IF e.oops THEN ProbeOut(FALSE, 0, all, NoProvider, warned)
       ELSE ProbeOut(TRUE, 0, all, IF e.reg THEN "registered" ELSE "ERR_PTR", warned)

\* ds250dfx10_probe, lines 202-308, from the register image and the
\* environment to what it returns, the lanes left alive, priv->provider and
\* whether it warned about the device id
ProbeRun(image, e) ==
    LET device_id == ReadRegisterValue(image[DS250DF410_REG_DEVICE_ID], 255)
        chan_config_id == ReadRegisterValue(image[DS250DF410_REG_CHAN_CONFIG_ID],
                                            DS250DF410_MASK_CHAN_CONFIG_ID)
        channels == ChannelsOf(chan_config_id)
        warned == device_id # 16
        all == {i \in Slots : i < channels}
    IN IF ~e.alloc THEN ProbeOut(TRUE, -ENOMEM, {}, NoProvider, FALSE)
       ELSE IF e.reads < 2 THEN ProbeOut(TRUE, -EIO, {}, NoProvider, FALSE)
       ELSE IF e.reads < 3 THEN ProbeOut(TRUE, -EIO, {}, NoProvider, warned)
       ELSE IF channels = 0 THEN ProbeOut(TRUE, -EINVAL, {}, NoProvider, warned)
       ELSE IF e.reads < 4 THEN ProbeOut(TRUE, -EIO, {}, NoProvider, warned)
       ELSE IF e.create < channels
       THEN IF e.kind = "create" /\ e.oops
            THEN ProbeOut(FALSE, 0, {i \in Slots : i < e.create}, NoProvider, warned)
            ELSE ProbeOut(TRUE, -ENOMEM, {}, NoProvider, warned)
       ELSE IF e.oops THEN ProbeOut(FALSE, 0, all, NoProvider, warned)
       ELSE ProbeOut(TRUE, 0, all, IF e.reg THEN "registered" ELSE "ERR_PTR", warned)

\* ---------------------------------------------------------------- consumers
\* indices a consumer passes as args[0], as the int that of_xlate reads
XlateArgs == {-1, 0, 2, 3, 4, 7, 8}
XlateCounts == {0, 1, 2}

\* channel >= ARRAY_SIZE(...): the int is converted to size_t, so a negative
\* channel compares as a huge unsigned value
GeUnsigned(channel, n) == channel < 0 \/ channel >= n

\* the lookup without the check of args_count
OfXlateAnyCount(args_count, channel) ==
    IF GeUnsigned(channel, PhySlots)
    THEN [err |-> -ENODEV, phy |-> NULL]
    ELSE IF phy[channel] = NULL
    THEN [err |-> -ENODEV, phy |-> NULL]
    ELSE [err |-> 0, phy |-> phy[channel]]

\* ds250dfx10_of_xlate: the error (0 when none) and the handle returned
OfXlate(args_count, channel) ==
    IF args_count # 1
    THEN [err |-> -ENODEV, phy |-> NULL]
    ELSE IF GeUnsigned(channel, PhySlots)
    THEN [err |-> -ENODEV, phy |-> NULL]
    ELSE IF phy[channel] = NULL
    THEN [err |-> -ENODEV, phy |-> NULL]
    ELSE [err |-> 0, phy |-> phy[channel]]

NoXlate == [n |-> 0, args_count |-> 0, channel |-> 0, err |-> 0, phy |-> NULL,
            at |-> None]

\* a consumer without a lane resolves one through the registered provider
XlateCall(t) ==
    /\ t \in active
    /\ Quiet(t)
    /\ provider = "registered"
    /\ held[t] = NULL
    /\ \E args_count \in XlateCounts, channel \in XlateArgs :
          LET r == OfXlate(args_count, channel)
          IN /\ xl' = [xl EXCEPT ![t] =
                        [n |-> 1, args_count |-> args_count, channel |-> channel,
                         err |-> r.err, phy |-> r.phy, at |-> ppc]]
             /\ held' = [held EXCEPT ![t] = r.phy]
    /\ UNCHANGED <<devvars, active, pc, call, step, ret, wr, result, log, ncalls,
                   snap>>
    /\ UNCHANGED probevars

NoResult == [returned |-> FALSE, rv |-> 0, info |-> FALSE]

\* ds250dfx10_phy_set_mode up to the dispatch: an unsupported request returns
\* at once, a supported one enters the configure sequence
SetMode(t) ==
    /\ t \in active
    /\ Quiet(t)
    /\ ncalls[t] < MaxCalls
    /\ held[t] \in alive
    /\ drvdata[held[t]] # NoData
    /\ \E mode \in Modes, submode \in Submodes :
          LET priv == drvdata[held[t]]
              c == [phy |-> held[t], mode |-> mode, submode |-> submode,
                    channel |-> priv.channel]
          IN /\ call' = [call EXCEPT ![t] = c]
             /\ IF SetModeDispatch(mode, submode) = "EOPNOTSUPP"
                THEN /\ result' = [result EXCEPT ![t] =
                                  [returned |-> TRUE, rv |-> -EOPNOTSUPP, info |-> FALSE]]
                     /\ pc' = [pc EXCEPT ![t] = "ret"]
                     /\ wr' = [wr EXCEPT ![t] = NoFrame]
                     /\ step' = [step EXCEPT ![t] = 0]
                ELSE /\ result' = [result EXCEPT ![t] = NoResult]
                     /\ pc' = [pc EXCEPT ![t] = "cfg"]
                     /\ wr' = [wr EXCEPT ![t] =
                                 FrameOf(ConfigSeq(submode, priv.channel)[1])]
                     /\ step' = [step EXCEPT ![t] = 1]
    /\ ret' = [ret EXCEPT ![t] = 0]
    /\ log' = [log EXCEPT ![t] = <<>>]
    /\ snap' = [snap EXCEPT ![t] = regs]
    /\ ncalls' = [ncalls EXCEPT ![t] = @ + 1]
    /\ UNCHANGED <<devvars, active, held, xl>>
    /\ UNCHANGED probevars

\* end of ds250dfx10_config_10g / _25g (dev_info only if !ret) and
\* ds250dfx10_phy_set_mode line 176: return 0
ConfigReturnValue(r) == 0

ConfigReturn(t) ==
    /\ t \in active
    /\ pc[t] = "cfg"
    /\ step[t] > Len(CallSeq(t))
    /\ result' = [result EXCEPT ![t] =
                    [returned |-> TRUE, rv |-> ConfigReturnValue(ret[t]),
                     info |-> (ret[t] = 0)]]
    /\ pc' = [pc EXCEPT ![t] = "ret"]
    /\ UNCHANGED <<devvars, active, held, xl, call, step, ret, wr, log, ncalls,
                   snap>>
    /\ UNCHANGED probevars

\* ------------------------------------------------- register access harness
UnitAddrs == {10, 61}
UnitValues == {0, 15, 90, 128, 255}
UnitMasks == {0, 3, 15, 31, 128, 240, 255}
UnitFills == {0, 165, 90, 255}

\* a direct call ds250dfx10_write_register(client, address, value, mask)
UnitCall(t) ==
    /\ t \in active
    /\ pc[t] \in {"unit", "unitret"}
    /\ ncalls[t] < MaxUnitCalls
    /\ \E address \in UnitAddrs, value \in UnitValues, mask \in UnitMasks :
          wr' = [wr EXCEPT ![t] = WriteRegisterFrame(address, value, mask)]
    /\ pc' = [pc EXCEPT ![t] = "unit"]
    /\ log' = [log EXCEPT ![t] = <<>>]
    /\ snap' = [snap EXCEPT ![t] = regs]
    /\ ncalls' = [ncalls EXCEPT ![t] = @ + 1]
    /\ UNCHANGED <<devvars, active, held, xl, call, step, ret, result>>
    /\ UNCHANGED probevars

\* ------------------------------------------------------------ specifications
InitThreads(start) ==
    /\ pc = [t \in Threads |-> start]
    /\ held = [t \in Threads |-> NULL]
    /\ xl = [t \in Threads |-> NoXlate]
    /\ call = [t \in Threads |-> NoCall]
    /\ step = [t \in Threads |-> 0]
    /\ ret = [t \in Threads |-> 0]
    /\ wr = [t \in Threads |-> NoFrame]
    /\ result = [t \in Threads |-> NoResult]
    /\ log = [t \in Threads |-> <<>>]
    /\ ncalls = [t \in Threads |-> 0]
    /\ snap = [t \in Threads |-> regs]

InitDriver ==
    /\ faults = 0
    /\ pl = NoLocals
    /\ phy = [i \in Slots |-> NULL]
    /\ provider = NoProvider
    /\ alive = {}
    /\ drvdata = [h \in Handles |-> NoData]
    /\ nphys = 0

\* the driver from device attach on, with one consumer thread
Init ==
    /\ regs \in {DeviceImage(p[1], cfg, p[2]) :
                    p \in IdAndFill, cfg \in ChanCfgBytes}
    /\ InitDriver
    /\ ppc = "alloc"
    /\ active = {1}
    /\ InitThreads("idle")

Next ==
    \/ ProbeAlloc
    \/ ProbeReadDeviceId
    \/ ProbeReadVersion
    \/ ProbeReadChanConfig
    \/ ProbeReadChanVersion
    \/ ProbeCreatePhy
    \/ ProbeRegisterProvider
    \/ ProbeNoProvider
    \/ Remove
    \/ \E t \in Threads : XlateCall(t)
    \/ \E t \in Threads : SetMode(t)
    \/ \E t \in Threads : WriteRegisterRead(t)
    \/ \E t \in Threads : WriteRegisterWrite(t)
    \/ \E t \in Threads : ConfigReturn(t)

Spec == Init /\ [][Next]_vars

\* the state after a successful probe of a 4-lane device in which consumer
\* thread 1 has looked up lane 0 and consumer thread 2 lane 2; each thread has
\* one set_mode call to make and the bus does not fail
ConcLane(t) == 2 * (t - 1)

InitConc ==
    /\ regs = DeviceImage(16, 14, 90)
    /\ faults = MaxFaults
    /\ pl = [NoLocals EXCEPT !.device_id = 16, !.version = 2,
                             !.chan_config_id = 14, !.channels = 4,
                             !.chan_version = 2, !.share_version = 1,
                             !.i = 4, !.returned = TRUE]
    /\ phy = [i \in Slots |-> IF i < 4 THEN i + 1 ELSE NULL]
    /\ provider = "registered"
    /\ alive = 1..4
    /\ drvdata = [h \in Handles |-> IF h <= 4 THEN PhyPrivOf(h - 1) ELSE NoData]
    /\ nphys = 4
    /\ ppc = "probed"
    /\ active = {1, 2}
    /\ pc = [t \in Threads |-> "idle"]
    /\ held = [t \in Threads |-> IF t \in {1, 2} THEN ConcLane(t) + 1 ELSE NULL]
    /\ xl = [t \in Threads |->
                IF t \in {1, 2}
                THEN [n |-> 1, args_count |-> 1, channel |-> ConcLane(t),
                      err |-> 0, phy |-> ConcLane(t) + 1, at |-> "probed"]
                ELSE NoXlate]
    /\ call = [t \in Threads |-> NoCall]
    /\ step = [t \in Threads |-> 0]
    /\ ret = [t \in Threads |-> 0]
    /\ wr = [t \in Threads |-> NoFrame]
    /\ result = [t \in Threads |-> NoResult]
    /\ log = [t \in Threads |-> <<>>]
    /\ ncalls = [t \in Threads |-> MaxCalls - 1]
    /\ snap = [t \in Threads |-> regs]

\* fixed-priority preemptive scheduling of the consumer threads: a thread
\* runs while no thread with a higher number is inside configure, so that the
\* call of thread 2 can preempt the call of thread 1 between any two of its
\* bus transfers
Scheduled(t) == \A u \in active : u > t => pc[u] # "cfg"

NextConc ==
    \/ \E t \in Threads : Scheduled(t) /\ SetMode(t)
    \/ \E t \in Threads : Scheduled(t) /\ WriteRegisterRead(t)
    \/ \E t \in Threads : Scheduled(t) /\ WriteRegisterWrite(t)
    \/ \E t \in Threads : Scheduled(t) /\ ConfigReturn(t)

SpecConc == InitConc /\ [][NextConc]_vars

\* ds250dfx10_write_register called directly with arguments from small sets
InitWR ==
    /\ regs \in {DeviceImage(16, 14, fill) : fill \in UnitFills}
    /\ InitDriver
    /\ ppc = "harness"
    /\ active = {1}
    /\ InitThreads("unit")

NextWR ==
    \/ \E t \in Threads : UnitCall(t)
    \/ \E t \in Threads : WriteRegisterRead(t)
    \/ \E t \in Threads : WriteRegisterWrite(t)

SpecWR == InitWR /\ [][NextWR]_vars

\* ===================================================================== claims
Bit(x, b) == (x \div Pow2(b)) % 2
AllOk(L) == \A k \in 1..Len(L) : L[k].ok
Returned(t) == t \in active /\ pc[t] = "unitret"

\* C1: a masked write_register (mask # 0xFF) on a working bus issues exactly
\* one bus read of the address followed by exactly one bus write to the same
\* address; every bit of the written byte inside the mask comes from v, every
\* bit outside it from the byte the read returned.
C1_MaskedWriteIsReadModifyWrite ==
    \A t \in Threads :
        (t \in active /\ pc[t] \in {"unit", "unitret"} /\ ncalls[t] > 0
            /\ wr[t].mask # 255 /\ AllOk(log[t]))
        => LET L == log[t]
               f == wr[t]
           IN /\ Len(L) <= 2
              /\ Len(L) >= 1 =>
                    /\ L[1].op = "R"
                    /\ L[1].address = f.address
                    /\ L[1].data = snap[t][f.address]
              /\ Len(L) = 2 =>
                    /\ L[2].op = "W"
                    /\ L[2].address = f.address
                    /\ \A b \in 0..7 :
                          Bit(L[2].data, b) =
                             IF Bit(f.mask, b) = 1 THEN Bit(f.arg, b)
                             ELSE Bit(L[1].data, b)
                    /\ regs[f.address] = L[2].data
              /\ (pc[t] = "unitret") => (Len(L) = 2 /\ f.rv = 0)

C1_Witness ==
    \E t \in Threads :
        /\ Returned(t)
        /\ wr[t].mask = 240 /\ wr[t].arg = 90
        /\ Len(log[t]) = 2 /\ AllOk(log[t])
        /\ log[t][1].data = 165
        /\ log[t][2].data = 85

\* C2: write_register with mask = 0xFF issues exactly one bus write carrying
\* exactly v and no bus read.
C2_FullWriteIsSingleWrite ==
    \A t \in Threads :
        (t \in active /\ pc[t] \in {"unit", "unitret"} /\ ncalls[t] > 0
            /\ wr[t].mask = 255)
        => LET L == log[t]
           IN /\ Len(L) <= 1
              /\ \A k \in 1..Len(L) :
                    /\ L[k].op = "W"
                    /\ L[k].address = wr[t].address
                    /\ L[k].data = wr[t].arg
              /\ (pc[t] = "unitret") =>
                    /\ Len(L) = 1
                    /\ L[1].ok => (regs[wr[t].address] = wr[t].arg /\ wr[t].rv = 0)

C2_Witness ==
    \E t \in Threads :
        /\ Returned(t)
        /\ wr[t].mask = 255 /\ wr[t].arg = 15
        /\ Len(log[t]) = 1 /\ log[t][1].ok
        /\ snap[t][wr[t].address] = 165
        /\ regs[wr[t].address] = 15

\* a set_mode call of thread t that has returned / that ran configure
SetModeReturned(t) == t \in active /\ pc[t] = "ret"
Supported(c) ==
    /\ c.mode = PHY_MODE_ETHERNET
    /\ c.submode \in {PHY_INTERFACE_MODE_10GBASER, PHY_INTERFACE_MODE_25GBASER}

\* C3: when a bus write fails at a step of the configure sequence, set_mode
\* reports failure to its caller; it returns success only when every write of
\* the sequence succeeded.
C3_SetModeReportsFailure ==
    \A t \in Threads :
        (SetModeReturned(t) /\ Supported(call[t]))
        => /\ result[t].returned
           /\ result[t].rv = 0 <=> AllOk(log[t])

\* C4: continue-on-error: whatever transfer of a step fails, configure goes on
\* to attempt every later step, in order, with the address, value and mask of
\* the failure-free sequence; a step's transfers are its preserving read and
\* its write, or its read alone when the read failed.
StepTransfers(L, k) == SelectSeq(L, LAMBDA e : e.step = k)

StepShapeOk(E, triple) ==
    /\ Len(E) >= 1
    /\ \A j \in 1..Len(E) :
          /\ E[j].address = triple[1]
          /\ E[j].value = triple[2]
          /\ E[j].mask = triple[3]
    /\ IF triple[3] = 255
       THEN Len(E) = 1 /\ E[1].op = "W"
       ELSE /\ E[1].op = "R"
            /\ IF E[1].ok
               THEN Len(E) = 2 /\ E[2].op = "W"
               ELSE Len(E) = 1

Expected10g(c) ==
    << <<255, 1, 3>>, <<252, <<1, 2, 4, 8, 16, 32, 64, 128>>[c + 1], 255>>,
       <<0, 4, 4>>, <<10, 12, 12>>, <<47, 0, 240>>, <<61, 128, 128>>,
       <<61, 0, 64>>, <<61, 15, 31>>, <<62, 64, 64>>, <<62, 4, 15>>,
       <<63, 64, 64>>, <<63, 4, 15>>, <<10, 0, 12>> >>

ExpectedSeq(c) ==
    IF c.submode = PHY_INTERFACE_MODE_10GBASER
    THEN Expected10g(c.channel)
    ELSE [Expected10g(c.channel) EXCEPT ![5] = <<47, 80, 240>>]

C4_ContinueOnError ==
    \A t \in Threads :
        (SetModeReturned(t) /\ Supported(call[t]))
        => LET L == log[t]
               S == ExpectedSeq(call[t])
           IN /\ \A k \in 1..13 : StepShapeOk(StepTransfers(L, k), S[k])
              /\ \A j \in 1..Len(L) : L[j].step \in 1..13
              /\ \A j \in 1..(Len(L) - 1) : L[j].step <= L[j + 1].step

C4_Witness ==
    \E t \in Threads :
        /\ SetModeReturned(t) /\ Supported(call[t])
        /\ ~log[t][1].ok
        /\ log[t][Len(log[t])].step = 13
        /\ log[t][Len(log[t])].ok
        /\ Len(log[t]) = 24

\* C5: set_mode with a mode other than Ethernet, or with Ethernet and a
\* submode other than 10GBASE-R / 25GBASE-R, returns -EOPNOTSUPP and issues no
\* bus transfer: the register file, channel select included, is unchanged.
C5_UnsupportedHasNoEffect ==
    \A t \in Threads :
        (t \in active /\ ncalls[t] > 0 /\ pc[t] \in {"cfg", "ret"}
            /\ ~Supported(call[t]))
        => /\ pc[t] = "ret"
           /\ result[t].returned /\ result[t].rv = -EOPNOTSUPP
           /\ log[t] = <<>>
           /\ regs = snap[t]

C5_Witness ==
    \E t \in Threads :
        /\ SetModeReturned(t)
        /\ call[t].mode = PHY_MODE_ETHERNET /\ call[t].submode = "SGMII"
        /\ result[t].rv = -EOPNOTSUPP

\* the lanes of the device are exactly 0..n-1, each bound to its own index
LanesExactly(n) ==
    /\ \A i \in Slots :
          IF i < n
          THEN /\ phy[i] # NULL
               /\ phy[i] \in alive
               /\ drvdata[phy[i]] = [client |-> "client", channel |-> i]
          ELSE phy[i] = NULL
    /\ Cardinality(alive) = n
    /\ \A i, j \in Slots : (i < n /\ j < n /\ i # j) => phy[i] # phy[j]

ProbeReturned == pl.returned
LowNibble(b) == b % 16

\* C6: probe maps the low nibble of the byte at 0xEF to the lane count: 0xC
\* gives exactly the 8 lanes 0..7, 0xE exactly the 4 lanes 0..3 (whenever probe
\* succeeds); with any other value no lane is ever created, no provider is
\* registered and probe returns an error.
C6_ChanConfigMapsToLanes ==
    LET nib == LowNibble(regs[DS250DF410_REG_CHAN_CONFIG_ID])
    IN /\ (ppc = "probed" /\ nib = 12) => LanesExactly(8)
       /\ (ppc = "probed" /\ nib = 14) => LanesExactly(4)
       /\ (nib \notin {12, 14}) =>
             /\ nphys = 0 /\ alive = {}
             /\ \A i \in Slots : phy[i] = NULL
             /\ provider # "registered"
             /\ ppc # "probed"
             /\ ProbeReturned => (ppc = "failed" /\ pl.rv < 0)
             /\ ppc \in {"alloc", "rd_device_id", "rd_version", "rd_chan_config",
                         "failed"}

C6_Witness ==
    /\ ppc = "probed"
    /\ regs[DS250DF410_REG_CHAN_CONFIG_ID] = 60
    /\ Cardinality(alive) = 8
    /\ phy[7] # NULL

\* C7: whenever probe returns an error, no lane handle exists (the lanes
\* created before the failure are destroyed) and no provider is registered.
C7_ProbeFailsAtomically ==
    (ProbeReturned /\ pl.rv # 0)
    => /\ alive = {}
       /\ provider # "registered"
       /\ pl.rv < 0
       /\ \A t \in Threads : held[t] = NULL

C7_Witness ==
    /\ ProbeReturned /\ pl.rv = -ENOMEM
    /\ nphys = 3
    /\ phy[2] # NULL
    /\ alive = {}

\* C8: a lookup on a successfully probed device with N lanes returns a handle
\* exactly when it is given one argument with 0 <= index < N, and the handle is
\* the lane whose stored channel is that index; any other lookup returns
\* -ENODEV and no handle.
C8_LookupExactlyValidIndex ==
    \A t \in Threads :
        (t \in active /\ xl[t].n > 0 /\ xl[t].at = "probed")
        => LET x == xl[t]
               N == IF LowNibble(regs[DS250DF410_REG_CHAN_CONFIG_ID]) = 12
                    THEN 8 ELSE 4
               valid == x.args_count = 1 /\ 0 <= x.channel /\ x.channel < N
           IN /\ valid <=> (x.err = 0 /\ x.phy # NULL)
              /\ valid => /\ x.phy \in Handles
                          /\ drvdata[x.phy].channel = x.channel
                          /\ phy[x.channel] = x.phy
              /\ ~valid => (x.err = -ENODEV /\ x.phy = NULL)

C8_Witness ==
    \E t \in Threads :
        /\ t \in active /\ xl[t].n > 0 /\ xl[t].at = "probed"
        /\ pl.channels = 4
        /\ xl[t].channel = 3 /\ xl[t].args_count = 1
        /\ xl[t].err = 0 /\ drvdata[xl[t].phy].channel = 3

\* the bus transfers of a failure-free run of a sequence: op, address, mask
RECURSIVE TransfersOf(_)
TransfersOf(S) ==
    IF S = <<>> THEN <<>>
    ELSE (IF Head(S)[3] = 255
          THEN << <<"W", Head(S)[1], 255>> >>
          ELSE << <<"R", Head(S)[1], Head(S)[3]>>, <<"W", Head(S)[1], Head(S)[3]>> >>)
         \o TransfersOf(Tail(S))

OtherRate(c) ==
    [c EXCEPT !.submode = IF c.submode = PHY_INTERFACE_MODE_10GBASER
                          THEN PHY_INTERFACE_MODE_25GBASER
                          ELSE PHY_INTERFACE_MODE_10GBASER]

\* C9: on every lane the transfers of configure at 10G and at 25G agree in
\* number, order, address and mask, and in value except for the one write to
\* 0x2F (mask 0xF0), whose high nibble is 0x0 at 10G and 0x5 at 25G.
C9_RatesDifferOnlyInLineRate ==
    \A t \in Threads :
        (t \in active /\ pc[t] \in {"cfg", "ret"} /\ Supported(call[t]))
        => LET L == log[t]
               O == ConfigSeq(OtherRate(call[t]).submode, call[t].channel)
               T == TransfersOf(O)
               nib == IF call[t].submode = PHY_INTERFACE_MODE_10GBASER THEN 0 ELSE 5
           IN /\ \A j \in 1..Len(L) :
                    /\ L[j].address = O[L[j].step][1]
                    /\ L[j].mask = O[L[j].step][3]
                    /\ (L[j].address # 47) => (L[j].value = O[L[j].step][2])
                    /\ (L[j].address = 47) =>
                          /\ L[j].step = 5
                          /\ L[j].mask = 240
                          /\ L[j].value # O[L[j].step][2]
                          /\ (L[j].op = "W") => (L[j].data \div 16 = nib)
              /\ (pc[t] = "ret" /\ AllOk(L)) =>
                    /\ Len(L) = Len(T)
                    /\ \A j \in 1..Len(L) :
                          <<L[j].op, L[j].address, L[j].mask>> = T[j]

C9_Witness ==
    \E t \in Threads :
        /\ SetModeReturned(t)
        /\ call[t].submode = PHY_INTERFACE_MODE_25GBASER
        /\ AllOk(log[t]) /\ Len(log[t]) = 25
        /\ regs[47] \div 16 = 5
        /\ snap[t][47] \div 16 # 5

\* C10: configure on lane i (0 <= i < lane count) writes exactly the one-hot
\* byte 1 << i to channel select 0xFC, as a full-byte write with no read of
\* 0xFC; on a 4-lane device configure(lane 2, 25G) writes 0x04 to 0xFC and
\* high nibble 0x5 to 0x2F.
C10_ChannelSelectIsOneHot ==
    \A t \in Threads :
        (t \in active /\ pc[t] \in {"cfg", "ret"} /\ Supported(call[t]))
        => LET L == log[t]
               i == CHOOSE k \in Slots : phy[k] = call[t].phy
               sel == SelectSeq(L, LAMBDA e : e.address = 252)
           IN /\ \E k \in Slots : phy[k] = call[t].phy
              /\ i < pl.channels
              /\ Len(sel) <= 1
              /\ (step[t] > 2) => (Len(sel) = 1)
              /\ \A j \in 1..Len(sel) :
                    /\ sel[j].op = "W"
                    /\ sel[j].mask = 255
                    /\ sel[j].data = <<1, 2, 4, 8, 16, 32, 64, 128>>[i + 1]
                    /\ sel[j].ok => (regs[252] = sel[j].data)

C10_Witness ==
    \E t \in Threads :
        /\ SetModeReturned(t)
        /\ regs[DS250DF410_REG_CHAN_CONFIG_ID] = 14
        /\ regs[DS250DF410_REG_DEVICE_ID] = 16
        /\ pl.channels = 4
        /\ phy[2] = call[t].phy
        /\ call[t].submode = PHY_INTERFACE_MODE_25GBASER
        /\ AllOk(log[t]) /\ Len(log[t]) = 25
        /\ log[t][3].address = 252 /\ log[t][3].op = "W" /\ log[t][3].data = 4
        /\ \E j \in 1..Len(log[t]) :
              /\ log[t][j].address = 47 /\ log[t][j].op = "W"
              /\ log[t][j].data \div 16 = 5

\* the positions of the transfers of kind op in a log
OpsAt(L, op) == {j \in 1..Len(L) : L[j].op = op}

\* C11: write_register is single-shot on failure: when the preserving read of
\* a masked write fails no bus write is issued, the register is left unchanged
\* and -EIO is returned; when the bus write fails -EIO is returned; no bus
\* transfer is ever repeated.
C11_SingleShotOnFailure ==
    \A t \in Threads :
        (t \in active /\ pc[t] \in {"unit", "unitret"} /\ ncalls[t] > 0)
        => LET L == log[t]
           IN /\ Cardinality(OpsAt(L, "R")) <= 1
              /\ Cardinality(OpsAt(L, "W")) <= 1
              /\ \A j \in 1..Len(L) :
                    ~L[j].ok => /\ j = Len(L)
                                /\ pc[t] = "unitret"
                                /\ wr[t].rv = -EIO
                                /\ regs = snap[t]
              /\ (pc[t] = "unitret" /\ wr[t].rv # 0) => ~AllOk(L)

C11_Witness ==
    \E t \in Threads :
        /\ Returned(t)
        /\ wr[t].mask = 15
        /\ Len(log[t]) = 1
        /\ log[t][1].op = "R" /\ ~log[t][1].ok
        /\ wr[t].rv = -EIO
        /\ regs = snap[t]

\* probe has come to its end, it returned or it faulted, and no consumer has
\* called the driver since
ProbeEnded ==
    /\ ppc \in {"failed", "probed", "oops"}
    /\ \A t \in Threads : xl[t].n = 0

\* what the environment did to the run of probe that ended in this state
EnvOfRun ==
    LET failing == pl.i >= 0 /\ pl.i < pl.channels
    IN [alloc |-> ~(ppc = "failed" /\ pl.rv = -ENOMEM /\ pl.device_id = -1),
        reads |-> IF pl.device_id = -1 THEN 0
                  ELSE IF pl.version = -1 THEN 1
                  ELSE IF pl.chan_config_id = -1 THEN 2
                  ELSE IF pl.chan_version = -1 THEN 3
                  ELSE 4,
        create |-> IF failing THEN pl.i ELSE PhySlots,
        kind |-> IF failing /\ phy[pl.i] # NULL THEN "kzalloc" ELSE "create",
        oops |-> ppc = "oops",
        reg |-> provider = "registered"]

\* what the run of probe that ended in this state came to
OutcomeOfRun ==
    ProbeOut(pl.returned, pl.rv,
             {i \in Slots : phy[i] # NULL /\ phy[i] \in alive}, provider, pl.warned)

\* device ids a chip may report at 0xF1
OtherDeviceIds == {0, 16, 17, 28, 66, 255}

Unwarned(o) == [o EXCEPT !.warned = FALSE]

\* C12: the byte read at 0xF1 never changes the outcome of probe: under the
\* same environment and the same other registers, probe on a device with any
\* other id returns the same value, leaves the same lanes and the same
\* provider; the id only decides whether the warning is given.
C12_DeviceIdDoesNotDecideProbe ==
    ProbeEnded =>
        /\ OutcomeOfRun = ProbeRun(regs, EnvOfRun)
        /\ \A id \in OtherDeviceIds :
              LET o == ProbeRun([regs EXCEPT ![DS250DF410_REG_DEVICE_ID] = id],
                                EnvOfRun)
              IN /\ Unwarned(o) = Unwarned(OutcomeOfRun)
                 /\ (EnvOfRun.alloc /\ EnvOfRun.reads >= 2) => (o.warned <=> id # 16)

C12_Witness ==
    /\ ppc = "probed"
    /\ regs[DS250DF410_REG_DEVICE_ID] = 66
    /\ pl.warned
    /\ pl.returned /\ pl.rv = 0
    /\ Cardinality(alive) = 4
    /\ provider = "registered"

\* a configure call of thread t, running or returned
Configuring(t) == t \in active /\ pc[t] \in {"cfg", "ret"} /\ Supported(call[t])

IsHold(e) == e.address = 10 /\ e.value = 12 /\ e.mask = 12
IsRelease(e) == e.address = 10 /\ e.value = 0 /\ e.mask = 12
IsRateWrite(e) == e.address = 47 /\ e.op = "W"

\* C13 as claimed: in every execution of configure, failing transfers
\* included, 0x2F is written only after the call's write setting bits 0x0C of
\* 0x0A has succeeded and before its release write.
C13_RateOnlyAfterHoldSucceeded ==
    \A t \in Threads :
        Configuring(t)
        => LET L == log[t]
           IN \A j \in 1..Len(L) :
                 IsRateWrite(L[j])
                 => /\ \E i \in 1..(j - 1) : IsHold(L[i]) /\ L[i].op = "W" /\ L[i].ok
                    /\ \A i \in 1..(j - 1) : ~IsRelease(L[i])

\* C13 amended: in every execution of configure 0x2F is written only after
\* the call's CDR-hold step has been attempted and before its release step;
\* whenever the hold write succeeded, 0x2F is written while bits 0x0C of 0x0A
\* are set.  (When the hold step fails configure goes on and writes 0x2F.)
C13_RateAfterHoldAttempt ==
    \A t \in Threads :
        Configuring(t)
        => LET L == log[t]
           IN \A j \in 1..Len(L) :
                 IsRateWrite(L[j])
                 => /\ \E i \in 1..(j - 1) : IsHold(L[i])
                    /\ \A i \in 1..(j - 1) : ~IsRelease(L[i])
                    /\ (\E i \in 1..(j - 1) : IsHold(L[i]) /\ L[i].op = "W" /\ L[i].ok)
                          => (L[j].cdr \div 4) % 4 = 3

C13_Witness ==
    \E t \in Threads :
        /\ SetModeReturned(t) /\ Supported(call[t])
        /\ AllOk(log[t]) /\ Len(log[t]) = 25
        /\ (snap[t][10] \div 4) % 4 # 3
        /\ \E j \in 1..Len(log[t]) :
              IsRateWrite(log[t][j]) /\ log[t][j].ok /\ (log[t][j].cdr \div 4) % 4 = 3

PerChannelAddrs == {0, 10, 47, 61, 62, 63}
OneHotByte(i) == <<1, 2, 4, 8, 16, 32, 64, 128>>[i + 1]
AppliedChannelWrite(e) == e.op = "W" /\ e.ok /\ e.address \in PerChannelAddrs
LaneOf(t) == CHOOSE k \in Slots : phy[k] = call[t].phy

\* C14 as claimed: with configure calls serialized, every write configure(lane
\* i) applies to a per-channel register is applied while 0xFF has
\* single-channel addressing enabled and 0xFC holds 1 << i, also when the
\* paging or channel-select write fails.
C14_WritesLandOnOwnLane ==
    \A t \in Threads :
        Configuring(t)
        => LET L == log[t]
           IN \A j \in 1..Len(L) :
                 AppliedChannelWrite(L[j])
                 => /\ L[j].page % 4 = 1
                    /\ L[j].sel = OneHotByte(LaneOf(t))

\* C14 amended: with configure calls serialized, every per-channel write of
\* configure(lane i) comes after the call's paging and channel-select steps;
\* it is applied with single-channel addressing enabled whenever the paging
\* write succeeded and with 0xFC = 1 << i whenever the channel-select write
\* succeeded.  (When one of them fails configure goes on, and the writes land
\* under whatever 0xFF and 0xFC held.)
C14_WritesLandOnSelectedLane ==
    \A t \in Threads :
        Configuring(t)
        => LET L == log[t]
               okw(j, a) == \E i \in 1..(j - 1) :
                               L[i].address = a /\ L[i].op = "W" /\ L[i].ok
           IN \A j \in 1..Len(L) :
                 AppliedChannelWrite(L[j])
                 => /\ \E i \in 1..(j - 1) : L[i].address = 255
                    /\ \E i \in 1..(j - 1) : L[i].address = 252
                    /\ okw(j, 255) => L[j].page % 4 = 1
                    /\ okw(j, 252) => L[j].sel = OneHotByte(LaneOf(t))

C14_Witness ==
    \E t \in Threads :
        /\ SetModeReturned(t) /\ Supported(call[t])
        /\ AllOk(log[t]) /\ Len(log[t]) = 25
        /\ LaneOf(t) = 3
        /\ snap[t][252] # 8 /\ snap[t][255] % 4 # 1
        /\ \A j \in 4..25 : log[t][j].sel = 8 /\ log[t][j].page % 4 = 1

\* C15: the driver does not serialize configure: while a set_mode call is
\* inside configure a second thread may enter set_mode for another lane, and
\* every per-channel write of a call is applied under the channel select of
\* its own lane or of the lane being configured concurrently; there is an
\* interleaving in which a write of the call for lane a is applied while
\* 0xFC holds 1 << b.
C15_ConfigureNotSerialized ==
    \A a, b \in Threads :
        (a # b /\ a \in active /\ b \in active)
        => /\ (pc[a] = "cfg" /\ pc[b] \in {"idle", "ret"} /\ held[b] \in alive
                  /\ ncalls[b] < MaxCalls)
              => ENABLED SetMode(b)
           /\ (Configuring(a) /\ Configuring(b))
              => \A j \in 1..Len(log[a]) :
                    AppliedChannelWrite(log[a][j])
                    => log[a][j].sel \in {OneHotByte(LaneOf(a)), OneHotByte(LaneOf(b))}

C15_Witness ==
    \E a, b \in Threads :
        /\ a # b /\ Configuring(a) /\ Configuring(b)
        /\ LaneOf(a) = 0 /\ LaneOf(b) = 2
        /\ \E j \in 1..Len(log[a]) :
              /\ AppliedChannelWrite(log[a][j])
              /\ log[a][j].address = 47
              /\ log[a][j].sel = 4

\* C16: in a failure-free run configure issues its writes in the order paging
\* (0xFF, 0x03), channel select (0xFC, 0xFF), channel reset (0x00, 0x04), CDR
\* hold (0x0A, 0x0C), line rate (0x2F, 0xF0), tap enable (0x3D, 0x80), main
\* cursor (0x3D), pre-cursor (0x3E), post-cursor (0x3F), CDR release (0x0A,
\* 0x0C, value 0); each cursor stage is a sign write followed by a magnitude
\* write.  Paging and channel select precede every per-channel write and the
\* CDR release is the last bus transfer of the call.
Stages ==
    << <<255, 3>>, <<252, 255>>, <<0, 4>>, <<10, 12>>, <<47, 240>>, <<61, 128>>,
       <<61>>, <<62>>, <<63>>, <<10, 12>> >>
StageOfWrite == <<1, 2, 3, 4, 5, 6, 7, 7, 8, 8, 9, 9, 10>>
WritesOf(L) == SelectSeq(L, LAMBDA e : e.op = "W")

C16_WriteOrder ==
    \A t \in Threads :
        (SetModeReturned(t) /\ Supported(call[t]) /\ AllOk(log[t]))
        => LET L == log[t]
               W == WritesOf(L)
           IN /\ Len(W) = Len(StageOfWrite)
              /\ \A k \in 1..Len(W) :
                    LET st == Stages[StageOfWrite[k]]
                    IN /\ W[k].address = st[1]
                       /\ Len(st) = 2 => W[k].mask = st[2]
              /\ \A j \in 1..Len(L) :
                    (L[j].op = "W" /\ L[j].address \in PerChannelAddrs)
                    => \E p, q \in 1..(j - 1) :
                          /\ p < q
                          /\ L[p].op = "W" /\ L[p].address = 255
                          /\ L[q].op = "W" /\ L[q].address = 252
              /\ L[Len(L)].op = "W" /\ IsRelease(L[Len(L)])

C16_Witness ==
    \E t \in Threads :
        /\ SetModeReturned(t) /\ Supported(call[t]) /\ AllOk(log[t])
        /\ call[t].submode = PHY_INTERFACE_MODE_25GBASER
        /\ Len(log[t]) = 25
        /\ log[t][Len(log[t])].address = 10

\* the bits of each register that configure may change, as a mask per address
FieldMask(owned, address) ==
    IF address \in DOMAIN owned THEN owned[address] ELSE 0

\* every bit outside the owned fields holds what it held when the call began
FramePreserved(t, owned) ==
    \A address \in DOMAIN regs :
        \/ regs[address] = snap[t][address]
        \/ LET keep == BitNot8(FieldMask(owned, address))
           IN BitAnd(regs[address], keep) = BitAnd(snap[t][address], keep)

\* C17 as claimed: the field of 0x3D is bit 0x80, bit 0x40 and the low nibble,
\* so that bits 0x20 and 0x10 of 0x3D keep their prior value; after a
\* failure-free call the low nibble of 0x3D is 0x0F.
ClaimedFields ==
    (255 :> 3) @@ (252 :> 255) @@ (0 :> 4) @@ (10 :> 12) @@ (47 :> 240)
    @@ (61 :> 207) @@ (62 :> 79) @@ (63 :> 79)

C17_FrameLowNibble ==
    \A t \in Threads :
        Configuring(t) => FramePreserved(t, ClaimedFields)

\* C17: a configure call changes no bit other than 0xFF bits 0x03, all of
\* 0xFC, 0x00 bit 0x04, 0x0A bits 0x0C, 0x2F high nibble, 0x3D bits 0x80, 0x40
\* and the low five bits 0x1F, 0x3E and 0x3F bit 0x40 and low nibble; every
\* other bit (bit 0x20 of 0x3D among them) and every other register keep
\* their prior value, failing transfers included.  After a failure-free call
\* 0x3D has bit 0x80 set, bit 0x40 clear and low five bits 0x0F; 0x3E and
\* 0x3F have bit 0x40 set and low nibble 0x04; 0x0A has bits 0x0C clear.
WrittenFields == [ClaimedFields EXCEPT ![61] = 223]

C17_FrameOfConfigure ==
    \A t \in Threads :
        /\ Configuring(t) => FramePreserved(t, WrittenFields)
        /\ (SetModeReturned(t) /\ Supported(call[t]) /\ AllOk(log[t]))
           => /\ BitAnd(regs[61], 223) = 143
              /\ BitAnd(regs[62], 79) = 68
              /\ BitAnd(regs[63], 79) = 68
              /\ BitAnd(regs[10], 12) = 0

C17_Witness ==
    \E t \in Threads :
        /\ SetModeReturned(t) /\ Supported(call[t]) /\ AllOk(log[t])
        /\ Bit(snap[t][61], 4) = 1 /\ Bit(regs[61], 4) = 0
        /\ Bit(snap[t][61], 5) = Bit(regs[61], 5)
        /\ BitAnd(regs[61], 31) = 15

\* C18: whenever probe returns success the PHY provider is registered and
\* exactly N lane handles exist, N in {4, 8}, one for each index 0..N-1 and
\* each bound to the probed device and to its own index; probe never returns
\* success when the registration of the provider failed.
C18_SuccessMeansProviderAndLanes ==
    (ppc = "probed" /\ ProbeReturned /\ pl.rv = 0)
    => /\ provider = "registered"
       /\ pl.channels \in {4, 8}
       /\ LanesExactly(pl.channels)

\* C19: lanes never outlive the device: once remove has destroyed a lane, a
\* lookup (ds250dfx10_of_xlate) never returns the handle of that destroyed
\* lane, in any ordering of remove and lookup calls.
C19_NoDestroyedLaneLookedUp ==
    \A t \in Threads :
        (t \in active /\ xl[t].n > 0 /\ xl[t].at = "removed")
        => (xl[t].phy = NULL \/ xl[t].phy \in alive)

====
